---- MODULE Spec2Model ----
(***************************************************************************)
(* Model of src/lambda_user_form_handler.py: the submission intake         *)
(* handler (lambda_handler) with its helpers _get_cors_headers, _response, *)
(* _is_valid_email, _parse_body, _validate_payload and _put_item, and the  *)
(* DynamoDB table it writes with a conditional put.                        *)
(*                                                                         *)
(* Python values are records [t, v]: t is the type tag and v is str(value) *)
(* as a sequence of text fragments (single characters wherever the code    *)
(* looks at characters, as in the e-mail pattern).  A missing dictionary   *)
(* key is the pseudo value Absent.  A raised exception is a record         *)
(* [exc, msg] with the exception class and str(exception).                 *)
(***************************************************************************)
EXTENDS Integers, Sequences, FiniteSets, TLC

VARIABLES env, store, clock, nInv, request, response, calls, failure, prior, inv

vars == <<env, store, clock, nInv, request, response, calls, failure, prior, inv>>

(* ------------------------------ bounds -------------------------------- *)

\* Sequential invocations of the handler in Spec.
MaxInvocations == 1
\* Distinct identifiers uuid.uuid4() can return (a collision must be possible).
NumUuids == 2
\* Concurrent invocations in SpecConc.
NumProcs == 2

(* --------------------------- Python values ---------------------------- *)

Absent == [t |-> "absent", v |-> <<>>]
None == [t |-> "none", v |-> <<"None">>]
Str(s) == [t |-> "str", v |-> s]
PyInt(s) == [t |-> "int", v |-> s]
True == [t |-> "bool", v |-> <<"True">>]
False == [t |-> "bool", v |-> <<"False">>]

\* bool(x): the truth value Python gives a value in `not x`, `x or y`, `if x`.
Truthy(x) ==
    CASE x.t = "str" -> x.v # <<>>
      [] x.t = "int" -> x.v # <<"0">>
      [] x.t = "bool" -> x.v = <<"True">>
      [] x.t = "list" -> x.v # <<"[", "]">>
      [] OTHER -> FALSE

\* d.get(key) on a mapping held as a function: None when the key is missing.
Get(d, key) == IF key \in DOMAIN d THEN d[key] ELSE None

\* x or y
Or(x, y) == IF Truthy(x) THEN x ELSE y

\* isinstance(e, ValueError): binascii.Error, UnicodeDecodeError and
\* json.JSONDecodeError are subclasses of ValueError.
IsValueError(cls) ==
    cls \in {"ValueError", "binascii.Error", "UnicodeDecodeError", "JSONDecodeError"}

(* ----------------------- responses and headers ------------------------ *)

\* os.getenv(name, default): the variable's value, the default when unset.
Getenv(e, name, default) == IF e[name] = Absent THEN default ELSE e[name]

_get_cors_headers(e) ==
    [k \in {"Access-Control-Allow-Origin", "Access-Control-Allow-Methods",
            "Access-Control-Allow-Headers", "Access-Control-Max-Age"} |->
        CASE k = "Access-Control-Allow-Origin" ->
                 Getenv(e, "ALLOWED_ORIGINS", Str(<<"*">>)).v
          [] k = "Access-Control-Allow-Methods" -> <<"OPTIONS,POST">>
          [] k = "Access-Control-Allow-Headers" -> <<"Content-Type,Authorization">>
          [] k = "Access-Control-Max-Age" -> <<"86400">>]

\* json.dumps of a dict of strings, the dict held as a sequence of
\* <<key, text>> pairs in insertion order: the JSON text, as fragments.
RECURSIVE JsonMembers(_)
JsonMembers(pairs) ==
    IF pairs = <<>> THEN <<>>
    ELSE <<"\"", pairs[1][1], "\": \"">> \o pairs[1][2] \o <<"\"">>
         \o (IF Len(pairs) > 1 THEN <<", ">> ELSE <<>>)
         \o JsonMembers(Tail(pairs))

JsonDumps(pairs) == <<"{">> \o JsonMembers(pairs) \o <<"}">>

_response(e, status_code, body) ==
    [statusCode |-> status_code,
     headers |-> _get_cors_headers(e),
     body |-> JsonDumps(body)]

(* --------------------------- e-mail pattern --------------------------- *)

\* \s of the re module, on the characters the model uses.
Whitespace == {" ", "\t", "\n", "\r"}

\* [^@\s]
Plain(c) == c # "@" /\ c \notin Whitespace

\* [^@\s]+ matches exactly s[a..b].
PlainRun(s, a, b) == a <= b /\ \A k \in a..b : Plain(s[k])

\* [^@\s]+@[^@\s]+\.[^@\s]+ matches exactly s[1..n].
MatchesTo(s, n) ==
    \E i \in 1..n :
        /\ s[i] = "@"
        /\ PlainRun(s, 1, i - 1)
        /\ \E j \in (i + 1)..n :
              /\ s[j] = "."
              /\ PlainRun(s, i + 1, j - 1)
              /\ PlainRun(s, j + 1, n)

\* re.match(r"^[^@\s]+@[^@\s]+\.[^@\s]+$", email) is not None.  Without
\* re.MULTILINE, $ matches at the end of the string and also just before a
\* newline that is the string's last character.
_is_valid_email(email) ==
    \/ MatchesTo(email, Len(email))
    \/ /\ Len(email) >= 1
       /\ email[Len(email)] = "\n"
       /\ MatchesTo(email, Len(email) - 1)

(* ----------------------------- the event ------------------------------ *)

(* An event is a record                                                    *)
(*   httpMethod       a Python value, Absent when the key is missing;      *)
(*   requestContext   [t, http]: t is "absent", "none" or "dict" and http  *)
(*                    is [t, method] likewise, method a Python value;      *)
(*   headers          [t, items]: t is "absent", "none", "dict" or "str"   *)
(*                    (a non-empty string where a mapping is expected),    *)
(*                    items the mapping from header keys to values;        *)
(*   body             [t, enc, syntax, pairs], see below;                  *)
(*   isBase64Encoded  a Python value, Absent when the key is missing.      *)
(* A body of t = "str" is a text.  syntax is what the text is: "empty",    *)
(* "object" (a JSON object whose members are pairs, in order), "array" (a  *)
(* JSON array), "malformed" (no JSON and no key=value pair) or "form"      *)
(* (key=value pairs joined by &, values percent-encoded).  enc is what     *)
(* base64.b64decode(text).decode("utf-8") does with the text: "b64" when   *)
(* the text is the base64 encoding of the text that syntax and pairs       *)
(* describe, "padding" when b64decode raises binascii.Error and "nonutf8"  *)
(* when decode raises UnicodeDecodeError; in the last two syntax and pairs *)
(* describe the text itself.  A body of t = "int" is a non-zero number.    *)

EmptyMap == [k \in {} |-> None]

EmptyText == [t |-> "str", enc |-> "padding", syntax |-> "empty", pairs |-> <<>>]

FormType == "application/x-www-form-urlencoded"

\* MethodOf reading httpMethod alone, as a handler written for one event
\* format would.
MethodOfHttpMethodOnly(event) ==
    [exc |-> "none",
     val |-> IF event.httpMethod = Absent THEN None ELSE event.httpMethod]

\* The method lookup of the preflight test:
\*   event.get("httpMethod")
\*     or event.get("requestContext", {}).get("http", {}).get("method")
\* A default of {} replaces a missing key only, so a key holding None makes
\* the next .get raise AttributeError.
MethodOf(event) ==
    LET hm == IF event.httpMethod = Absent THEN None ELSE event.httpMethod
        rc == event.requestContext
    IN  IF Truthy(hm) THEN [exc |-> "none", val |-> hm]
        ELSE IF rc.t = "none" THEN [exc |-> "AttributeError", val |-> None]
        ELSE IF rc.t = "absent" \/ rc.http.t = "absent"
             THEN [exc |-> "none", val |-> None]
        ELSE IF rc.http.t = "none" THEN [exc |-> "AttributeError", val |-> None]
        ELSE [exc |-> "none",
              val |-> IF rc.http.method = Absent THEN None ELSE rc.http.method]

(* ------------------------------ parsing ------------------------------- *)

ParseOk(payload, tag) ==
    [exc |-> "none", msg |-> <<>>, payload |-> payload, source_type |-> tag]

ParseFail(cls, text) ==
    [exc |-> cls, msg |-> text, payload |-> EmptyMap, source_type |-> ""]

BodyTruthy(b) == (b.t = "str" /\ b.syntax # "empty") \/ b.t = "int"

\* base64.b64decode(raw_body).decode("utf-8")
B64DecodeUtf8(raw) ==
    IF raw.t = "int"
    THEN [exc |-> "TypeError",
          msg |-> <<"argument should be a bytes-like object or ASCII string, not 'int'">>,
          val |-> raw]
    ELSE IF raw.syntax = "empty" THEN [exc |-> "none", msg |-> <<>>, val |-> raw]
    ELSE IF raw.enc = "b64"
    THEN [exc |-> "none", msg |-> <<>>, val |-> [raw EXCEPT !.enc = "padding"]]
    ELSE IF raw.enc = "padding"
    THEN [exc |-> "binascii.Error", msg |-> <<"Incorrect padding">>, val |-> raw]
    ELSE [exc |-> "UnicodeDecodeError",
          msg |-> <<"'utf-8' codec can't decode byte 0x9d in position 0: invalid start byte">>,
          val |-> raw]

\* What a text read as it stands is: base64 text is no JSON, and read as
\* form data it holds no pair with a value (it ends in at most one =, and
\* parse_qs drops a blank value).
SyntaxOf(raw) == IF raw.enc = "b64" THEN "malformed" ELSE raw.syntax

\* Percent-decoding of a form value, fragment by fragment.
Unquote(v) ==
    [i \in 1..Len(v) |->
        CASE v[i] = "%40" -> "@"
          [] v[i] = "%0A" -> "\n"
          [] v[i] = "+" -> " "
          [] OTHER -> v[i]]

\* The dict json.loads builds from an object's members: the last member of
\* a repeated key wins.
JsonObject(pairs) ==
    [k \in {pairs[i][1] : i \in 1..Len(pairs)} |->
        pairs[CHOOSE i \in 1..Len(pairs) :
                /\ pairs[i][1] = k
                /\ \A j \in (i + 1)..Len(pairs) : pairs[j][1] # k][2]]

\* {k: v[0] ...} over parse_qs(raw_body): blank values are dropped, each
\* value is percent-decoded, and the first value of a repeated key is taken.
ParseQs(pairs) ==
    LET kept == SelectSeq(pairs, LAMBDA p : p[2].v # <<>>)
    IN  [k \in {kept[i][1] : i \in 1..Len(kept)} |->
            Str(Unquote(kept[CHOOSE i \in 1..Len(kept) :
                               /\ kept[i][1] = k
                               /\ \A j \in 1..(i - 1) : kept[j][1] # k][2].v))]

\* needle in text, on fragments.
Contains(text, needle) == \E i \in 1..Len(text) : text[i] = needle

_parse_body(event) ==
    LET hdrs == event.headers
        h == IF hdrs.t = "dict" THEN hdrs.items ELSE EmptyMap
        content_type ==
            Or(Get(h, "content-type"),
               Or(Get(h, "Content-Type"), Str(<<"application/json">>)))
        raw0 == IF BodyTruthy(event.body) THEN event.body ELSE EmptyText
        dec == IF event.isBase64Encoded # Absent /\ Truthy(event.isBase64Encoded)
               THEN B64DecodeUtf8(raw0)
               ELSE [exc |-> "none", msg |-> <<>>, val |-> raw0]
        raw_body == dec.val
    IN  IF hdrs.t = "str"
        THEN ParseFail("AttributeError", <<"'str' object has no attribute 'get'">>)
        ELSE IF dec.exc # "none" THEN ParseFail(dec.exc, dec.msg)
        ELSE IF content_type.t # "str"
        THEN ParseFail("TypeError", <<"argument of type 'int' is not iterable">>)
        ELSE IF Contains(content_type.v, FormType)
        THEN IF raw_body.t # "str"
             THEN ParseFail("AttributeError", <<"'int' object has no attribute 'decode'">>)
             ELSE ParseOk(IF SyntaxOf(raw_body) = "form"
                          THEN ParseQs(raw_body.pairs) ELSE EmptyMap, "form")
        ELSE IF raw_body.t # "str"
        THEN ParseFail("TypeError",
                       <<"the JSON object must be str, bytes or bytearray, not int">>)
        ELSE IF SyntaxOf(raw_body) = "empty" THEN ParseOk(EmptyMap, "json")
        ELSE IF SyntaxOf(raw_body) \in {"malformed", "form"}
        THEN ParseFail("ValueError", <<"Invalid JSON in request body">>)
        ELSE IF SyntaxOf(raw_body) # "object"
        THEN ParseFail("ValueError", <<"Request JSON must be an object">>)
        ELSE ParseOk(JsonObject(raw_body.pairs), "json")

(* ----------------------------- validation ----------------------------- *)

required_fields == <<"name", "email">>

\* The loop over required_fields: the first field whose value is missing
\* or falsy, 0 when there is none.
RECURSIVE FirstMissing(_, _, _)
FirstMissing(payload, fields, i) ==
    IF i > Len(fields) THEN 0
    ELSE IF ~Truthy(Get(payload, fields[i])) THEN i
    ELSE FirstMissing(payload, fields, i + 1)

_validate_payload(payload) ==
    LET m == FirstMissing(payload, required_fields, 1)
    IN  IF m # 0
        THEN [is_valid |-> FALSE,
              error_msg |-> <<"Missing required field: ", required_fields[m]>>]
        ELSE IF ~_is_valid_email(Get(payload, "email").v)
        THEN [is_valid |-> FALSE, error_msg |-> <<"Invalid email format">>]
        ELSE [is_valid |-> TRUE, error_msg |-> <<>>]

(* ----------------------- the record and the table --------------------- *)

Digits == <<"0", "1", "2", "3", "4", "5", "6", "7", "8", "9">>

RECURSIVE Decimal(_)
Decimal(n) == IF n < 10 THEN <<Digits[n + 1]>>
              ELSE Decimal(n \div 10) \o <<Digits[(n % 10) + 1]>>

\* str(uuid.uuid4()) for the u-th identifier the generator can return.
UuidText(u) == <<"uuid-">> \o Decimal(u)

\* datetime.now(timezone.utc).isoformat() at clock reading c.
IsoFormat(c) == <<"T">> \o Decimal(c)

ItemKeys == {"userId", "name", "email", "message", "phone", "sourceType",
             "createdAt", "updatedAt"}

\* Optional without the test for None: str(payload.get(key)).
OptionalAlwaysStr(payload, key) == Str(Get(payload, key).v)

\* str(payload.get(key)) if payload.get(key) is not None else None
Optional(payload, key) ==
    IF Get(payload, key) # None THEN Str(Get(payload, key).v) ELSE None

\* BuildItem with the clock read a second time for updatedAt.
BuildItemTwoClockReads(payload, source_type, user_id, now_iso) ==
    LET item == [k \in ItemKeys |->
                    CASE k = "userId" -> Str(user_id)
                      [] k = "name" -> Str(Get(payload, "name").v)
                      [] k = "email" -> Str(Get(payload, "email").v)
                      [] k = "message" -> Optional(payload, "message")
                      [] k = "phone" -> Optional(payload, "phone")
                      [] k = "sourceType" -> Str(<<source_type>>)
                      [] k = "createdAt" -> Str(now_iso)
                      [] k = "updatedAt" -> Str(now_iso \o <<".000001">>)]
    IN  [k \in {x \in ItemKeys : item[x] # None} |-> item[k]]

\* The item dict and the comprehension that drops its None values.
BuildItem(payload, source_type, user_id, now_iso) ==
    LET item == [k \in ItemKeys |->
                    CASE k = "userId" -> Str(user_id)
                      [] k = "name" -> Str(Get(payload, "name").v)
                      [] k = "email" -> Str(Get(payload, "email").v)
                      [] k = "message" -> Optional(payload, "message")
                      [] k = "phone" -> Optional(payload, "phone")
                      [] k = "sourceType" -> Str(<<source_type>>)
                      [] k = "createdAt" -> Str(now_iso)
                      [] k = "updatedAt" -> Str(now_iso)]
    IN  [k \in {x \in ItemKeys : item[x] # None} |-> item[k]]

\* What the table answers to one put_item: "none" (the request is served),
\* "ClientError" (the service returns an error, such as throttling) or
\* "EndpointConnectionError" (botocore cannot reach the service; not a
\* ClientError).  A request that is not served changes nothing.
Faults == {"none", "ClientError", "EndpointConnectionError"}

\* str() of the ClientError of a put whose condition does not hold.
ConditionFailed ==
    <<"An error occurred (ConditionalCheckFailedException) when calling the PutItem operation: The conditional request failed">>

\* _put_item without the ConditionExpression: a put replaces the item that
\* holds the key.
_put_item_unconditional(st, item, fault) ==
    IF fault # "none"
    THEN [exc |-> fault, msg |-> <<"Could not connect to the endpoint URL">>, store |-> st]
    ELSE [exc |-> "none", msg |-> <<>>,
          store |-> {r \in st : r["userId"] # item["userId"]} \cup {item}]

\* table.put_item(Item=item,
\*                ConditionExpression="attribute_not_exists(userId)")
\* on table contents st (a set of items, at most one per userId).
_put_item(st, item, fault) ==
    IF fault = "ClientError"
    THEN [exc |-> "ClientError",
          msg |-> <<"An error occurred (ProvisionedThroughputExceededException) when calling the PutItem operation">>,
          store |-> st]
    ELSE IF fault # "none"
    THEN [exc |-> fault,
          msg |-> <<"Could not connect to the endpoint URL">>,
          store |-> st]
    ELSE IF \E r \in st : r["userId"] = item["userId"]
    THEN [exc |-> "ClientError", msg |-> ConditionFailed, store |-> st]
    ELSE [exc |-> "none", msg |-> <<>>, store |-> st \cup {item}]


(* ----------------------------- the handler ---------------------------- *)

NoResponse == [statusCode |-> 0, headers |-> [k \in {} |-> <<>>], body |-> <<>>]

NoItem == [k \in {} |-> None]

NoFailure == [stage |-> "none", exc |-> "none"]

\* The except clauses of lambda_handler, tried in order.
Translate(e, cls, text) ==
    IF IsValueError(cls)
    THEN _response(e, 400, <<<<"message", text>>>>)
    ELSE IF cls = "ClientError"
    THEN _response(e, 500, <<<<"message", <<"DynamoDB error">>>>, <<"detail", text>>>>)
    ELSE _response(e, 500,
                   <<<<"message", <<"Internal server error">>>>, <<"detail", text>>>>)

Ended(resp, parses, validates, fail) ==
    [kind |-> "respond", raised |-> "none", response |-> resp, payload |-> EmptyMap,
     source_type |-> "", parses |-> parses, validates |-> validates, failure |-> fail]

\* lambda_handler up to the end of validation: the preflight test, the
\* TABLE_NAME test, _parse_body and _validate_payload, with the except
\* clauses for what these raise.  kind is "raise" when an exception leaves
\* the handler, "respond" when the handler returns here and "put" when it
\* goes on to build and persist the record.
Prepare(event, e) ==
    LET method == MethodOf(event)
        table_name == Getenv(e, "TABLE_NAME", None)
        parsed == _parse_body(event)
        checked == _validate_payload(parsed.payload)
    IN  IF method.exc # "none"
        THEN [kind |-> "raise", raised |-> method.exc, response |-> NoResponse,
              payload |-> EmptyMap, source_type |-> "", parses |-> 0, validates |-> 0,
              failure |-> [stage |-> "method", exc |-> method.exc]]
        ELSE IF method.val = Str(<<"OPTIONS">>)
        THEN Ended(_response(e, 204, <<>>), 0, 0, NoFailure)
        ELSE IF ~Truthy(table_name)
        THEN Ended(_response(e, 500,
                     <<<<"message", <<"Server misconfiguration: TABLE_NAME is not set">>>>>>),
                   0, 0, NoFailure)
        ELSE IF parsed.exc # "none"
        THEN Ended(Translate(e, parsed.exc, parsed.msg), 1, 0,
                   [stage |-> "parse", exc |-> parsed.exc])
        ELSE IF ~checked.is_valid
        THEN Ended(_response(e, 400, <<<<"message", checked.error_msg>>>>), 1, 1, NoFailure)
        ELSE [kind |-> "put", raised |-> "none", response |-> NoResponse,
              payload |-> parsed.payload, source_type |-> parsed.source_type,
              parses |-> 1, validates |-> 1, failure |-> NoFailure]

\* Persist answering 201 whatever _put_item raised.
PersistSwallowsFailure(pre, e, st, u, c, fault) ==
    [raised |-> "none",
     response |-> _response(e, 201, <<<<"message", <<"Submitted">>>>,
                                      <<"userId", UuidText(u)>>>>),
     store |-> _put_item(st, BuildItem(pre.payload, pre.source_type, UuidText(u),
                                        IsoFormat(c)), fault).store,
     item |-> BuildItem(pre.payload, pre.source_type, UuidText(u), IsoFormat(c)),
     puts |-> 1, failure |-> NoFailure, detail |-> <<>>]

\* The rest of lambda_handler: the identifier u that uuid.uuid4() returns,
\* the clock reading c of datetime.now(), the item, _put_item, and then the
\* 201 response or the except clause for what the put raised.
Persist(pre, e, st, u, c, fault) ==
    LET user_id == UuidText(u)
        item == BuildItem(pre.payload, pre.source_type, user_id, IsoFormat(c))
        put == _put_item(st, item, fault)
    IN  IF put.exc = "none"
        THEN [raised |-> "none",
              response |-> _response(e, 201, <<<<"message", <<"Submitted">>>>,
                                               <<"userId", user_id>>>>),
              store |-> put.store, item |-> item, puts |-> 1, failure |-> NoFailure,
              detail |-> put.msg]
        ELSE [raised |-> "none",
              response |-> Translate(e, put.exc, put.msg),
              store |-> put.store, item |-> item, puts |-> 1,
              failure |-> [stage |-> "put", exc |-> put.exc], detail |-> put.msg]

\* One whole invocation of lambda_handler on table contents st, from what
\* Prepare gave.
Handle(pre, e, st, u, c, fault) ==
    IF pre.kind = "put"
    THEN LET out == Persist(pre, e, st, u, c, fault)
         IN  [raised |-> out.raised, response |-> out.response, store |-> out.store,
              calls |-> [parse |-> pre.parses, validate |-> pre.validates,
                         put |-> out.puts],
              failure |-> out.failure]
    ELSE [raised |-> pre.raised, response |-> pre.response, store |-> st,
          calls |-> [parse |-> pre.parses, validate |-> pre.validates, put |-> 0],
          failure |-> pre.failure]

(* ------------------------------- inputs ------------------------------- *)

Options == Str(<<"OPTIONS">>)
Post == Str(<<"POST">>)

HttpAbsent == [t |-> "absent", method |-> Absent]
HttpNone == [t |-> "none", method |-> Absent]
Http(m) == [t |-> "dict", method |-> m]

ContextAbsent == [t |-> "absent", http |-> HttpAbsent]
ContextNone == [t |-> "none", http |-> HttpAbsent]
Context(h) == [t |-> "dict", http |-> h]

HttpMethods == {Absent, None, Options, Post}

Contexts == {ContextAbsent, ContextNone, Context(HttpAbsent), Context(HttpNone),
             Context(Http(Absent)), Context(Http(Options)), Context(Http(Post))}

HeadersAbsent == [t |-> "absent", items |-> EmptyMap]
HeadersNone == [t |-> "none", items |-> EmptyMap]
HeadersStr == [t |-> "str", items |-> EmptyMap]
Headers(items) == [t |-> "dict", items |-> items]

JsonType == Str(<<"application/json">>)
FormTypeValue == Str(<<FormType>>)
FormTypeCharset == Str(<<FormType, "; charset=utf-8">>)

One(key, value) == [k \in {key} |-> value]

\* The casings of the Content-Type key, each with a form and a JSON value.
CasedHeaders ==
    {Headers(One(key, value)) :
        key \in {"content-type", "Content-Type", "CONTENT-TYPE"},
        value \in {JsonType, FormTypeValue}}

HeaderSet ==
    CasedHeaders \cup
    {HeadersAbsent, HeadersNone, HeadersStr, Headers(EmptyMap),
     Headers(One("Content-Type", FormTypeCharset)),
     Headers([k \in {"content-type", "Content-Type"} |->
                 IF k = "content-type" THEN Str(<<>>) ELSE FormTypeValue]),
     Headers(One("content-type", PyInt(<<"5">>)))}

BodyAbsent == [t |-> "absent", enc |-> "padding", syntax |-> "empty", pairs |-> <<>>]
BodyNone == [t |-> "none", enc |-> "padding", syntax |-> "empty", pairs |-> <<>>]
BodyInt == [t |-> "int", enc |-> "padding", syntax |-> "empty", pairs |-> <<>>]
Text(enc, syntax, pairs) == [t |-> "str", enc |-> enc, syntax |-> syntax, pairs |-> pairs]

Jo == Str(<<"J", "o">>)
GoodEmail == Str(<<"j", "o", "@", "e", "x", ".", "c", "o", "m">>)
GoodEmailQuoted == Str(<<"j", "o", "%40", "e", "x", ".", "c", "o", "m">>)

\* {"name": "Jo", "email": "jo@ex.com"} and name=Jo&email=jo%40ex.com
GoodJson == Text("nonutf8", "object", <<<<"name", Jo>>, <<"email", GoodEmail>>>>)
GoodForm == Text("nonutf8", "form", <<<<"name", Jo>>, <<"email", GoodEmailQuoted>>>>)

\* The bodies that differ in kind: missing, null, a number, empty, valid
\* JSON and form texts, [1,2], {not json, the base64 of the valid JSON
\* text, and texts that repeat a key.
BodyKinds ==
    {BodyAbsent, BodyNone, BodyInt, EmptyText, GoodJson, GoodForm,
     Text("padding", "array", <<>>),
     Text("padding", "malformed", <<>>),
     Text("b64", "object", GoodJson.pairs),
     Text("nonutf8", "object",
          <<<<"name", Str(<<>>)>>, <<"name", Jo>>, <<"email", GoodEmail>>>>),
     Text("nonutf8", "form",
          <<<<"name", Str(<<>>)>>, <<"name", Jo>>, <<"name", Str(<<"X">>)>>,
            <<"email", GoodEmailQuoted>>>>)}

\* The members a payload can have, per field; <<>> leaves the field out.
Member(key, values) == {<<>>} \cup {<<<<key, v>>>> : v \in values}

Names == Member("name", {Str(<<>>), Jo, PyInt(<<"0">>)})

Emails ==
    Member("email",
           {Str(<<>>), GoodEmail, PyInt(<<"5">>),
            Str(<<"j", "o", "@", "e", "x">>),
            Str(<<"j", " ", "@", "e", ".", "c">>),
            Str(<<"j", "@", "e", ".", "c", "\n">>)})

Messages == Member("message", {None, Str(<<>>), Str(<<"h", "i">>)})

Phones == Member("phone", {None, Str(<<"5", "5", "5">>)})

\* JSON objects: every name with every e-mail, and a valid pair with every
\* message and phone.
JsonPayloads ==
    {n \o m : n \in Names, m \in Emails} \cup
    {GoodJson.pairs \o m \o ph : m \in Messages, ph \in Phones}

\* Form texts hold strings only: no null and no number.
FormOf(pairs) ==
    [i \in 1..Len(pairs) |->
        <<pairs[i][1],
          Str([j \in 1..Len(pairs[i][2].v) |->
                 CASE pairs[i][2].v[j] = "@" -> "%40"
                   [] pairs[i][2].v[j] = "\n" -> "%0A"
                   [] pairs[i][2].v[j] = " " -> "+"
                   [] OTHER -> pairs[i][2].v[j]])>>]

FormPayloads ==
    {FormOf(pairs) : pairs \in {q \in JsonPayloads :
                                  \A i \in 1..Len(q) : q[i][2].t = "str"}}

Event(method, context, headers, body, flag) ==
    [httpMethod |-> method, requestContext |-> context, headers |-> headers,
     body |-> body, isBase64Encoded |-> flag]

\* Every way the method can be given, with a valid and a malformed body.
MethodEvents ==
    {Event(m, c, HeadersAbsent, b, Absent) :
        m \in HttpMethods, c \in Contexts,
        b \in {GoodJson, Text("padding", "malformed", <<>>)}}

\* Every kind of headers with a valid JSON and a valid form body, and every
\* kind of body, plain and flagged base64, read as JSON and as form data.
ParseEvents ==
    {Event(Post, ContextAbsent, h, b, Absent) :
        h \in HeaderSet, b \in {GoodJson, GoodForm}} \cup
    {Event(Post, ContextAbsent, h, b, f) :
        h \in {HeadersAbsent, Headers(One("content-type", FormTypeValue))},
        b \in BodyKinds, f \in {Absent, False, True}}

\* Every payload, as JSON and as form text.
PayloadEvents ==
    {Event(Post, ContextAbsent, Headers(One("Content-Type", JsonType)),
           Text("nonutf8", "object", q), Absent) : q \in JsonPayloads} \cup
    {Event(Absent, Context(Http(Post)), Headers(One("content-type", FormTypeValue)),
           Text("nonutf8", "form", q), Absent) : q \in FormPayloads}

\* Preflight requests with headers and bodies the pipeline would reject.
PreflightEvents ==
    {Event(Options, ContextAbsent, h, b, True) :
        h \in {HeadersNone, HeadersStr, Headers(One("content-type", FormTypeValue))},
        b \in BodyKinds}

Events == MethodEvents \cup ParseEvents \cup PayloadEvents \cup PreflightEvents

Envs ==
    [TABLE_NAME : {Absent, Str(<<>>), Str(<<"submissions">>)},
     ALLOWED_ORIGINS : {Absent, Str(<<"https://heart.example">>)}]

Uuids == 1..NumUuids

\* The table as deployed: empty, or holding the record of an earlier
\* submission of {"name": "Jo", "email": "jo@ex.com"} under the first
\* identifier, written at clock reading 0.
Existing == BuildItem(JsonObject(GoodJson.pairs), "json", UuidText(1), IsoFormat(0))

InitialStores == {{}, {Existing}}

NoRequest == Event(Absent, ContextAbsent, HeadersAbsent, BodyAbsent, Absent)

NoCalls == [parse |-> 0, validate |-> 0, put |-> 0]

(* --------------------- sequential invocations: Spec ------------------- *)

Procs == 1..NumProcs

\* An invocation of SpecConc: its place (pc), the number of its event, the identifier u
\* and the clock reading c it drew, its item and response, the number of
\* store calls it made, and whether its put failed on its condition.
Idle == [pc |-> "idle", event |-> 0, u |-> 0, c |-> 0, item |-> NoItem,
         response |-> NoResponse, raised |-> "none", puts |-> 0, failure |-> NoFailure,
         found |-> FALSE]

Init ==
    /\ env \in Envs
    /\ store \in InitialStores
    /\ clock = 1
    /\ nInv = 0
    /\ request = NoRequest
    /\ response = NoResponse
    /\ calls = NoCalls
    /\ failure = [stage |-> "none", exc |-> "none", raised |-> "none"]
    /\ prior = store
    /\ inv = [p \in Procs |-> Idle]

Finish(event, out) ==
    /\ request' = event
    /\ response' = out.response
    /\ store' = out.store
    /\ calls' = out.calls
    /\ failure' = [stage |-> out.failure.stage, exc |-> out.failure.exc,
                   raised |-> out.raised]
    /\ prior' = store
    /\ clock' = clock + 1
    /\ nInv' = nInv + 1
    /\ UNCHANGED <<env, inv>>

\* Prepare of every event under every configuration, computed once.
Prepared == [e \in Envs |-> [event \in Events |-> Prepare(event, e)]]

\* One invocation of lambda_handler, start to return.  The identifier and
\* the table's answer matter only when the handler reaches _put_item.
lambda_handler(event) ==
    /\ nInv < MaxInvocations
    /\ IF Prepared[env][event].kind = "put"
       THEN \E u \in Uuids : \E fault \in Faults :
                Finish(event, Handle(Prepared[env][event], env, store, u, clock, fault))
       ELSE Finish(event, Handle(Prepared[env][event], env, store, 1, clock, "none"))

Next == \E event \in Events : lambda_handler(event)

Spec == Init /\ [][Next]_vars

(* -------------------- concurrent invocations: SpecConc ---------------- *)

(* The hosting runtime runs invocations concurrently; they share nothing   *)
(* but the table.  Everything lambda_handler does before _put_item is      *)
(* local to the invocation, and DynamoDB serves one conditional put        *)
(* atomically, so an invocation takes two steps here: Begin, up to the     *)
(* built item, and Put, the store call and the response.                   *)

\* The events of SpecConc, by number: a valid JSON submission, a valid form
\* submission with a message, and a preflight request.
ConcEvents ==
    <<Event(Post, ContextAbsent, HeadersAbsent, GoodJson, Absent),
      Event(Post, ContextAbsent, Headers(One("content-type", FormTypeValue)),
            Text("nonutf8", "form",
                 GoodForm.pairs \o <<<<"message", Str(<<"h", "i">>)>>>>), Absent),
      Event(Options, ContextAbsent, HeadersAbsent, BodyAbsent, Absent)>>

\* SpecConc runs under one configuration: Prepare of each of its events.
ConcEnv == [TABLE_NAME |-> Str(<<"submissions">>), ALLOWED_ORIGINS |-> Absent]

PreparedConc == [n \in 1..Len(ConcEvents) |-> Prepare(ConcEvents[n], ConcEnv)]

Begin(p, n) ==
    /\ inv[p].pc = "idle"
    /\ LET pre == PreparedConc[n]
       IN  IF pre.kind = "put"
           THEN \E u \in Uuids :
                    inv' = [inv EXCEPT ![p] =
                              [@ EXCEPT !.pc = "put", !.event = n, !.u = u,
                                        !.c = clock]]
           ELSE inv' = [inv EXCEPT ![p] =
                          [@ EXCEPT !.pc = "done", !.event = n,
                                    !.response = pre.response,
                                    !.raised = pre.raised]]
    /\ clock' = clock + 1
    /\ UNCHANGED <<env, store, nInv, request, response, calls, failure, prior>>

Done(p, out) ==
    /\ store' = out.store
    /\ inv' = [inv EXCEPT ![p] =
                 [@ EXCEPT !.pc = "done", !.response = out.response,
                           !.item = out.item, !.puts = @ + out.puts,
                           !.failure = out.failure,
                           !.found = (out.detail = ConditionFailed)]]

Put(p) ==
    /\ inv[p].pc = "put"
    /\ \E fault \in Faults :
          Done(p, Persist(PreparedConc[inv[p].event], env, store,
                          inv[p].u, inv[p].c, fault))
    /\ UNCHANGED <<env, clock, nInv, request, response, calls, failure, prior>>

NextConc ==
    \/ \E p \in Procs : \E n \in 1..Len(ConcEvents) : Begin(p, n)
    \/ \E p \in Procs : Put(p)

\* A deployment with TABLE_NAME set: without it no invocation reaches the
\* table.
InitConc ==
    /\ Init
    /\ env = ConcEnv

SpecConc == InitConc /\ [][NextConc]_vars

(* ------------------------------ the claims ---------------------------- *)

\* An invocation has run in Spec: request, response, calls, failure and
\* prior describe it.
Invoked == nInv > 0

\* The request's method as the specification gives it: httpMethod, and
\* requestContext.http.method when httpMethod is absent or null.
RequestMethod(event) ==
    IF event.httpMethod \notin {Absent, None} THEN event.httpMethod
    ELSE IF event.requestContext.t = "dict" /\ event.requestContext.http.t = "dict"
            /\ event.requestContext.http.method # Absent
    THEN event.requestContext.http.method
    ELSE None

IsOptionsRequest(event) == RequestMethod(event) = Options

TableNameSet == env["TABLE_NAME"] \notin {Absent, Str(<<>>)}

\* The local@domain.tld shape of the specification: one or more characters
\* that are neither @ nor whitespace, @, one or more such characters, a
\* dot, one or more such characters, and nothing else.
ValidShape(email) ==
    \E i \in 1..Len(email) : \E j \in 1..Len(email) :
        /\ i > 1 /\ j > i + 1 /\ j < Len(email)
        /\ email[i] = "@"
        /\ email[j] = "."
        /\ \A k \in 1..Len(email) :
              k \notin {i, j} => email[k] \notin Whitespace \cup {"@"}

\* The mapping the request's body parsed to.
Payload == _parse_body(request).payload

Parsed == _parse_body(request).exc = "none"

\* The response body {"message": text}, and the start of a body whose
\* first member is "message": text.
MessageOnly(text) == JsonDumps(<<<<"message", text>>>>)

StartsWithMessage(body, text) ==
    /\ Len(body) >= Len(text) + 5
    /\ SubSeq(body, 1, Len(text) + 5) = <<"{", "\"", "message", "\": \"">> \o text \o <<"\"">>

HasDetail(body) == \E i \in 1..Len(body) : body[i] = "detail"

\* The records the invocation added to the table.
Added == store \ prior

\* C1: an invocation that is no preflight, runs with TABLE_NAME set, whose
\* body parses to a mapping with a truthy name and a truthy e-mail of valid
\* shape, and whose store write succeeds, responds 201 with body
\* {"message": "Submitted", "userId": id}, persists exactly one record,
\* keyed by id, whose createdAt equals its updatedAt.
C1_ValidSubmissionCreated ==
    (/\ Invoked
     /\ ~IsOptionsRequest(request)
     /\ TableNameSet
     /\ Parsed
     /\ Truthy(Get(Payload, "name"))
     /\ Truthy(Get(Payload, "email"))
     /\ ValidShape(Get(Payload, "email").v)
     /\ calls.put = 1
     /\ failure.stage # "put")
    => /\ response.statusCode = 201
       /\ failure.raised = "none"
       /\ prior \subseteq store
       /\ \E u \in Uuids : \E r \in Added :
             /\ Added = {r}
             /\ response.body = JsonDumps(<<<<"message", <<"Submitted">>>>,
                                            <<"userId", UuidText(u)>>>>)
             /\ r["userId"] = Str(UuidText(u))
             /\ \A q \in prior : q["userId"] # r["userId"]
             /\ r["createdAt"] = r["updatedAt"]

\* A form submission stored next to an earlier record.
C1_Witness ==
    /\ Invoked
    /\ response.statusCode = 201
    /\ request.body.syntax = "form"
    /\ Cardinality(store) = 2

\* C2: every invocation returns a response with status 201, 204, 400 or
\* 500, and no exception leaves the handler.
C2_AllErrorsCaught ==
    Invoked => /\ failure.raised = "none"
               /\ response.statusCode \in {201, 204, 400, 500}

\* C3: an invocation attempts at most one store write, and only after
\* parsing and validation have both succeeded; a record is persisted if and
\* only if the response status is 201; an invocation that responds 204, 400
\* or 500 leaves the table as it was.
C3_NoPartialWrites ==
    Invoked =>
       /\ calls.put <= 1
       /\ calls.put = 1 =>
             /\ calls.parse = 1 /\ calls.validate = 1
             /\ Parsed
             /\ _validate_payload(Payload).is_valid
       /\ calls.put = 0 => store = prior
       /\ prior \subseteq store
       /\ Cardinality(Added) <= 1
       /\ (Added # {}) <=> (response.statusCode = 201)
       /\ response.statusCode \in {204, 400, 500} => store = prior

\* A store write that failed on a table that holds a record.
C3_Witness ==
    /\ Invoked
    /\ calls.put = 1
    /\ response.statusCode = 500
    /\ prior # {}
    /\ store = prior

\* C4: with TABLE_NAME absent or empty, an invocation that is no preflight
\* responds 500 "Server misconfiguration: TABLE_NAME is not set" whatever
\* the body, with no parse, validation or store call.
C4_MissingTableName ==
    (Invoked /\ ~TableNameSet /\ ~IsOptionsRequest(request))
    => /\ response.statusCode = 500
       /\ response.body =
             MessageOnly(<<"Server misconfiguration: TABLE_NAME is not set">>)
       /\ calls = NoCalls
       /\ store = prior

\* C5: an OPTIONS request, its method given by httpMethod or by
\* requestContext.http.method, gets 204 with body {} and the four CORS
\* headers whatever its body and headers and whether or not TABLE_NAME is
\* set, with no parse, validation or store call; the response depends on
\* nothing but the configured origin, so a repeated request gets the same.
C5_PreflightShortCircuit ==
    (Invoked /\ IsOptionsRequest(request))
    => /\ failure.raised = "none"
       /\ response.statusCode = 204
       /\ response.body = <<"{", "}">>
       /\ DOMAIN response.headers =
             {"Access-Control-Allow-Origin", "Access-Control-Allow-Methods",
              "Access-Control-Allow-Headers", "Access-Control-Max-Age"}
       /\ response.headers["Access-Control-Allow-Origin"] =
             (IF env["ALLOWED_ORIGINS"] = Absent THEN <<"*">>
              ELSE env["ALLOWED_ORIGINS"].v)
       /\ response.headers["Access-Control-Allow-Methods"] = <<"OPTIONS,POST">>
       /\ response.headers["Access-Control-Allow-Headers"] =
             <<"Content-Type,Authorization">>
       /\ response.headers["Access-Control-Max-Age"] = <<"86400">>
       /\ calls = NoCalls
       /\ store = prior

\* A preflight whose method comes from requestContext, with a body the
\* pipeline would reject and no TABLE_NAME.
C5_Witness ==
    /\ Invoked
    /\ request.httpMethod = Absent
    /\ IsOptionsRequest(request)
    /\ request.body.syntax = "malformed"
    /\ ~TableNameSet
    /\ response.statusCode = 204

\* The reason the specification's validator gives a mapping: name first,
\* then email, then the e-mail's shape; <<>> for a valid mapping.
Reason(payload) ==
    IF ~Truthy(Get(payload, "name")) THEN <<"Missing required field: ", "name">>
    ELSE IF ~Truthy(Get(payload, "email")) THEN <<"Missing required field: ", "email">>
    ELSE IF ~ValidShape(Get(payload, "email").v) THEN <<"Invalid email format">>
    ELSE <<>>

\* C6: validation gives every parsed mapping the reason of the first check
\* that fails, in the order name, email, e-mail shape, and a mapping that
\* fails none is valid; every invalid result is answered 400 with exactly
\* that reason as message.
C6_ValidationPrecedence ==
    (Invoked /\ calls.validate = 1)
    => /\ _validate_payload(Payload).error_msg = Reason(Payload)
       /\ _validate_payload(Payload).is_valid <=> (Reason(Payload) = <<>>)
       /\ Reason(Payload) # <<>> =>
             /\ response.statusCode = 400
             /\ response.body = MessageOnly(Reason(Payload))
             /\ calls.put = 0

\* C7: a parse failure is answered 400 with the parse error's message and
\* no validation or store call; a storage-layer error of the conditional
\* write is answered 500 "DynamoDB error" with the provider's detail; any
\* other failure is answered 500 "Internal server error" with detail.
C7_FailuresByStage ==
    (Invoked /\ failure.stage # "none")
    => IF failure.stage = "parse" /\ IsValueError(failure.exc)
       THEN /\ response.statusCode = 400
            /\ response.body = MessageOnly(_parse_body(request).msg)
            /\ calls.validate = 0 /\ calls.put = 0
       ELSE IF failure.stage = "put" /\ failure.exc = "ClientError"
       THEN /\ response.statusCode = 500
            /\ StartsWithMessage(response.body, <<"DynamoDB error">>)
            /\ HasDetail(response.body)
       ELSE /\ response.statusCode = 500
            /\ StartsWithMessage(response.body, <<"Internal server error">>)
            /\ HasDetail(response.body)

\* C8: under every interleaving of concurrent invocations on one table, a
\* persisted record is never changed or removed (the table's first records
\* and the record of every invocation answered 201 are in the table, one
\* record per identifier), and a write whose identifier is taken fails, is
\* answered 500 "DynamoDB error", is the invocation's only store call and
\* leaves the record that holds the identifier in place.
C8_ConditionalWrite ==
    /\ prior \subseteq store
    /\ \A r \in store : \A q \in store : r["userId"] = q["userId"] => r = q
    /\ \A p \in Procs :
          /\ (inv[p].pc = "done" /\ inv[p].response.statusCode = 201)
                => inv[p].item \in store
          /\ (inv[p].pc = "done" /\ inv[p].found)
                => /\ inv[p].response.statusCode = 500
                   /\ StartsWithMessage(inv[p].response.body, <<"DynamoDB error">>)
                   /\ inv[p].puts = 1
                   /\ \E r \in store : r["userId"] = inv[p].item["userId"]
          /\ inv[p].puts <= 1

\* Two invocations drew the same identifier: one was answered 201 and the
\* other found the identifier taken.
C8_Witness ==
    \E p \in Procs : \E q \in Procs :
        /\ p # q
        /\ inv[p].pc = "done" /\ inv[p].response.statusCode = 201
        /\ inv[q].pc = "done" /\ inv[q].found
        /\ inv[p].item # inv[q].item
        /\ inv[p].item["userId"] = inv[q].item["userId"]

\* C9: no persisted record holds a null field; every record holds userId,
\* name, email, sourceType, createdAt and updatedAt; and the record of a
\* submission holds message (phone) only if the payload's message (phone)
\* is present and not null.
C9_OptionalFieldsOmitted ==
    /\ \A r \in store :
          /\ \A k \in DOMAIN r : r[k] # None /\ r[k].t = "str"
          /\ {"userId", "name", "email", "sourceType", "createdAt", "updatedAt"}
                \subseteq DOMAIN r
          /\ DOMAIN r \subseteq ItemKeys
    /\ Invoked =>
          \A r \in Added : \A k \in {"message", "phone"} :
              k \in DOMAIN r => (k \in DOMAIN Payload /\ Payload[k] # None)

\* A record stored without message and phone for a payload whose message
\* and phone are null.
C9_Witness ==
    /\ Invoked
    /\ "message" \in DOMAIN Payload /\ Payload["message"] = None
    /\ "phone" \in DOMAIN Payload /\ Payload["phone"] = None
    /\ \E r \in Added : "message" \notin DOMAIN r /\ "phone" \notin DOMAIN r

\* Header keys that are casings of Content-Type.
IsContentTypeKey(k) == k \in {"content-type", "Content-Type", "CONTENT-TYPE"}

\* The tag the specification gives a request whose headers hold one
\* Content-Type key, of any casing, with a string value, or none.
ExpectedTag(h) ==
    IF \E k \in DOMAIN h : IsContentTypeKey(k) /\ Contains(h[k].v, FormType)
    THEN "form" ELSE "json"

\* C10: whatever the casing of the Content-Type key, a value indicating
\* application/x-www-form-urlencoded makes the body parse as form data
\* tagged "form", any other value and an absent header as JSON tagged
\* "json", and the tag is the sourceType of the persisted record.
C10_ContentTypeAnyCasing ==
    (/\ Invoked
     /\ calls.parse = 1
     /\ request.headers.t = "dict"
     /\ Cardinality(DOMAIN request.headers.items) <= 1
     /\ \A k \in DOMAIN request.headers.items : request.headers.items[k].t = "str"
     /\ request.body.t = "str"
     /\ ~Truthy(request.isBase64Encoded))
    => /\ Parsed => _parse_body(request).source_type = ExpectedTag(request.headers.items)
       /\ ExpectedTag(request.headers.items) = "form" => Parsed
       /\ \A r \in Added : r["sourceType"] = Str(<<ExpectedTag(request.headers.items)>>)

====
